---- MODULE Spec2Model ----
(***************************************************************************)
(* Model of the recipe scraping adapter:                                   *)
(*   api/scraper_lib.py   safe_call, scrape_recipe (the normalizer)        *)
(*   api/scrape.py        class handler (serverless transport, "A")        *)
(*   scripts/scraper-dev.py   Flask route /scrape and /health ("B")        *)
(*                                                                         *)
(* Python strings are sequences of characters; a character is a one-letter *)
(* TLA+ string, or the name of its code point ("U+0130") when it is not    *)
(* ASCII.  Python values are records tagged with their type in field t.    *)
(***************************************************************************)
EXTENDS Integers, Sequences, FiniteSets, TLC

\* Longest instructions() string, in lines, and longest instructions_list().
MaxLines == 2
MaxSteps == 2

(***************************************************************************)
(* Python values                                                           *)
(***************************************************************************)
None == [t |-> "NoneType"]
Str(s) == [t |-> "str", v |-> s]
List(s) == [t |-> "list", v |-> s]
PyInt(n) == [t |-> "int", v |-> n]
Dict(f) == [t |-> "dict", v |-> f]
\* A value json.dumps cannot encode.
Bytes(s) == [t |-> "bytes", v |-> s]

\* Python's ==, between values of the kinds above.
PyEq(a, b) == a.t = b.t /\ a = b

\* Python truthiness (bool(x)).
Truthy(x) ==
  CASE x.t = "NoneType" -> FALSE
    [] x.t = "int" -> x.v # 0
    [] x.t = "dict" -> DOMAIN x.v # {}
    [] OTHER -> x.v # <<>>

\* a or b
PyOr(a, b) == IF Truthy(a) THEN a ELSE b

\* d.get(k)
DictGet(d, k) == IF k \in DOMAIN d.v THEN d.v[k] ELSE None

\* What an accessor of the scraper object does when called.
Ret(v) == [ok |-> TRUE, v |-> v]
Raise == [ok |-> FALSE, v |-> None]

(***************************************************************************)
(* str.strip, str.lower, str.split('\n')                                   *)
(***************************************************************************)
IsSpace(c) == c \in {" ", "\t", "\n", "\r"}

RECURSIVE LStrip(_)
LStrip(s) == IF s # <<>> /\ IsSpace(Head(s)) THEN LStrip(Tail(s)) ELSE s

RECURSIVE RStrip(_)
RStrip(s) ==
  IF s # <<>> /\ IsSpace(s[Len(s)]) THEN RStrip(SubSeq(s, 1, Len(s) - 1)) ELSE s

Strip(s) == RStrip(LStrip(s))

UpperCase == << "A", "B", "C", "D", "E", "F", "G", "H", "I", "J", "K", "L", "M",
                "N", "O", "P", "Q", "R", "S", "T", "U", "V", "W", "X", "Y", "Z" >>
LowerCase == << "a", "b", "c", "d", "e", "f", "g", "h", "i", "j", "k", "l", "m",
                "n", "o", "p", "q", "r", "s", "t", "u", "v", "w", "x", "y", "z" >>

\* str.lower() of one character.  U+0130 (capital I with dot above) is the
\* one code point whose lower case is two code points: "i" and U+0307.
LowerChar(c) ==
  IF c = "U+0130" THEN << "i", "U+0307" >>
  ELSE IF \E k \in 1..26 : UpperCase[k] = c
       THEN << LowerCase[CHOOSE k \in 1..26 : UpperCase[k] = c] >>
       ELSE << c >>

RECURSIVE Lower(_)
Lower(s) == IF s = <<>> THEN <<>> ELSE LowerChar(Head(s)) \o Lower(Tail(s))

RECURSIVE SplitLines(_)
SplitLines(s) ==
  IF \A k \in 1..Len(s) : s[k] # "\n" THEN << s >>
  ELSE LET k == CHOOSE n \in 1..Len(s) : s[n] = "\n" /\ \A j \in 1..(n - 1) : s[j] # "\n"
       IN  << SubSeq(s, 1, k - 1) >> \o SplitLines(SubSeq(s, k + 1, Len(s)))

(***************************************************************************)
(* scraper_lib.py                                                          *)
(***************************************************************************)
safe_call_keep_list(out) ==
  IF ~out.ok THEN None
  ELSE IF PyEq(out.v, Str(<<>>)) THEN None
  ELSE out.v

safe_call(out) ==
  IF ~out.ok THEN None
  ELSE IF PyEq(out.v, Str(<<>>)) \/ PyEq(out.v, List(<<>>)) THEN None
  ELSE out.v

INVALID_INSTRUCTIONS ==
  { << "@", "t", "y", "p", "e" >>,
    << "t", "y", "p", "e" >>,
    << "t", "e", "x", "t" >>,
    << "u", "r", "l" >>,
    << "n", "a", "m", "e" >>,
    << "i", "m", "a", "g", "e" >>,
    << "v", "i", "d", "e", "o" >>,
    << "h", "o", "w", "t", "o", "s", "t", "e", "p" >>,
    << "h", "o", "w", "t", "o" >>,
    << "i", "t", "e", "m", "l", "i", "s", "t", "e", "l", "e", "m", "e", "n", "t" >>,
    << "@", "c", "o", "n", "t", "e", "x", "t" >>,
    << "p", "o", "s", "i", "t", "i", "o", "n" >> }

MinInstructionLength == 10

\* is_valid_instruction(step) raises AttributeError: step is truthy and has
\* no strip() method.
is_valid_instruction_raises(step) == Truthy(step) /\ step.t # "str"

is_valid_instruction(step) ==
  IF ~Truthy(step) THEN FALSE
  ELSE IF Strip(step.v) = <<>> THEN FALSE
  ELSE LET stripped == Lower(Strip(step.v))
       IN  IF stripped \in INVALID_INSTRUCTIONS THEN FALSE
           ELSE IF Len(stripped) < MinInstructionLength THEN FALSE
           ELSE TRUE

\* Lines 45-48 and 51-54: the eager fields and their defaults.
TitleOrNone(out) == IF out.ok THEN out.v ELSE None
TitleOr(out) == IF out.ok THEN out.v ELSE Str(<<>>)
IngredientsOr(out) == IF out.ok THEN out.v ELSE List(<<>>)

\* Line 80: the list comprehension over raw_instructions.split('\n').
RECURSIVE ValidLines(_)
ValidLines(lines) ==
  IF lines = <<>> THEN <<>>
  ELSE (IF is_valid_instruction(Str(Head(lines)))
        THEN << Str(Strip(Head(lines))) >> ELSE <<>>) \o ValidLines(Tail(lines))

\* Lines 78-82.
StringPath(raw) ==
  IF Truthy(raw) /\ raw.t = "str" THEN ValidLines(SplitLines(raw.v)) ELSE <<>>

\* Line 85: if not instructions.
AlwaysFallback(instrs) == TRUE
NeedsFallback(instrs) == instrs = <<>>

\* Line 92: step.get('text') or step.get('name') or ''.
StepTextOnly(step) == PyOr(DictGet(step, "text"), Str(<<>>))
StepText(step) == PyOr(PyOr(DictGet(step, "text"), DictGet(step, "name")), Str(<<>>))

\* for step in instructions_list_result: the items the loop visits.
IterItems(x) == IF x.t = "str" THEN [k \in 1..Len(x.v) |-> Str(<< x.v[k] >>)] ELSE x.v

\* Lines 102-133: key of the returned dict and the accessor safe_call wraps,
\* in the order of the dict literal.
FieldAccessors ==
  << << "author", "author" >>,
     << "description", "description" >>,
     << "image", "image" >>,
     << "yields", "yields" >>,
     << "totalTime", "total_time" >>,
     << "canonicalUrl", "canonical_url" >>,
     << "prepTime", "prep_time" >>,
     << "cookTime", "cook_time" >>,
     << "cuisine", "cuisine" >>,
     << "category", "category" >>,
     << "ratings", "ratings" >>,
     << "ratingsCount", "ratings_count" >>,
     << "equipment", "equipment" >>,
     << "nutrients", "nutrients" >>,
     << "dietaryRestrictions", "dietary_restrictions" >>,
     << "keywords", "keywords" >>,
     << "cookingMethod", "cooking_method" >>,
     << "siteName", "site_name" >>,
     << "host", "host" >>,
     << "language", "language" >> >>

Accessors == { FieldAccessors[k][2] : k \in 1..Len(FieldAccessors) }
SafeKeys == { FieldAccessors[k][1] : k \in 1..Len(FieldAccessors) }
AccessorOf(key) ==
  FieldAccessors[CHOOSE k \in 1..Len(FieldAccessors) : FieldAccessors[k][1] = key][2]

\* Lines 99-134: the returned dict.
RecordOf(doc, t, ing, ins) ==
  Dict( [title |-> t, ingredients |-> ing, instructions |-> List(ins)]
        @@ [key \in SafeKeys |-> safe_call(doc.fields[AccessorOf(key)])] )

(***************************************************************************)
(* Documents.  scrape_html(html) is a function of the document: a document *)
(* is described by what the library does on it, accessor by accessor.      *)
(***************************************************************************)
BakeLine == << "B", "a", "k", "e", " ", "2", "0", " ", "m", "i", "n" >>
StirLine == << " ", "S", "t", "i", "r", " ", "w", "e", "l", "l", ".", " " >>
MixLine == << "M", "i", "x", " ", "i", "t", " ", "u", "p" >>
TokenLine == << "I", "t", "e", "m", "L", "i", "s", "t", "E", "l", "e", "m", "e", "n", "t" >>
BlankLine == << " ", "\t" >>
\* "İyi pişir": nine characters, ten once lower-cased.
TurkLine == << "U+0130", "y", "i", " ", "p", "i", "U+015F", "i", "r" >>

LineSet == { BakeLine, StirLine, MixLine, TokenLine, BlankLine, TurkLine }

SeqsUpTo(S, n) == UNION { [1..k -> S] : k \in 1..n }

\* '\n'.join(lines)
RECURSIVE JoinLines(_)
JoinLines(ls) ==
  IF ls = <<>> THEN <<>>
  ELSE IF Len(ls) = 1 THEN ls[1]
  ELSE ls[1] \o << "\n" >> \o JoinLines(Tail(ls))

\* scraper.instructions()
InstructionsOutcomes ==
  { Raise, Ret(Str(<<>>)), Ret(None), Ret(List(<< Str(BakeLine) >>)) }
  \cup { Ret(Str(JoinLines(ls))) : ls \in SeqsUpTo(LineSet, MaxLines) }

HowToStep == ("@type" :> Str(<< "H", "o", "w", "T", "o", "S", "t", "e", "p" >>))

StepSet ==
  { Str(BakeLine),
    Str(MixLine),
    Str(TurkLine),
    Dict(HowToStep @@ [text |-> Str(StirLine)]),
    Dict(HowToStep @@ [name |-> Str(BakeLine)]),
    Dict(HowToStep),
    Dict([text |-> Str(<<>>), name |-> Str(TokenLine)]),
    Dict(HowToStep @@ [text |-> PyInt(350)]) }

\* scraper.instructions_list()
FewListOutcomes == { Raise, Ret(List(<<>>)), Ret(List(<< Str(BakeLine) >>)) }
InstructionsListOutcomes ==
  FewListOutcomes \cup { Ret(List(ss)) : ss \in SeqsUpTo(StepSet, MaxSteps) }

TitleOutcomes == { Raise, Ret(Str(<<>>)), Ret(List(<<>>)), Ret(Str(<< "C", "a", "k", "e" >>)) }
IngredientsOutcomes ==
  { Raise, Ret(Str(<<>>)), Ret(List(<<>>)), Ret(List(<< Str(<< "e", "g", "g" >>) >>)) }

\* The other twenty accessors.
FieldOutcomes ==
  { Raise, Ret(Str(<<>>)), Ret(List(<<>>)), Ret(Str(<< "x" >>)), Ret(Dict(<<>>)),
    Ret(PyInt(0)), Ret(Bytes(<< "x" >>)) }
BaseOutcomes == { Raise, Ret(List(<<>>)), Ret(Str(<< "x" >>)) }
FieldPatterns ==
  { [a \in Accessors |-> IF a = f THEN o ELSE b] :
      f \in Accessors, o \in FieldOutcomes, b \in BaseOutcomes }

AllFields(o) == [a \in Accessors |-> o]

Doc(c, t, ing, ins, lst, fs) ==
  [construct |-> c, title |-> t, ingredients |-> ing, instructions |-> ins,
   instructions_list |-> lst, fields |-> fs]

HasValidLine(out) == out.ok /\ StringPath(out.v) # <<>>

\* Documents that exercise the instruction paths.
InstrDocs ==
  { Doc("ok", Ret(Str(<< "C", "a", "k", "e" >>)), Raise, ins, lst, AllFields(Ret(Str(<< "x" >>)))) :
      ins \in InstructionsOutcomes,
      lst \in InstructionsListOutcomes }

\* Documents that exercise the fields.
FieldDocs ==
  { Doc("ok", t, ing, ins, lst, fs) :
      t \in TitleOutcomes, ing \in IngredientsOutcomes,
      ins \in { Raise, Ret(Str(<<>>)) }, lst \in { Raise, Ret(List(<<>>)) },
      fs \in FieldPatterns }

\* Documents the library cannot build a scraper from; the value is the class
\* of the exception scrape_html raises.
ConstructErrors == { "ValueError", "NoSchemaFoundInWildMode" }
FailDocs ==
  { Doc(c, Raise, Raise, Raise, Raise, AllFields(Raise)) : c \in ConstructErrors }

Docs ==
  { d \in InstrDocs : HasValidLine(d.instructions) => d.instructions_list \in FewListOutcomes }
  \cup FieldDocs \cup FailDocs

\* Documents sent over HTTP.
GoodDoc ==
  Doc("ok", Ret(Str(<< "C", "a", "k", "e" >>)), Ret(List(<< Str(<< "e", "g", "g" >>) >>)),
      Ret(Str(JoinLines(<< BakeLine, StirLine >>))), Raise, AllFields(Ret(Str(<< "x" >>))))
ListDoc ==
  [GoodDoc EXCEPT !.instructions = Raise,
                  !.instructions_list =
                     Ret(List(<< Dict(HowToStep @@ [text |-> Str(StirLine)]), Str(BakeLine) >>))]
IllTypedDoc ==
  [GoodDoc EXCEPT !.instructions = Raise,
                  !.instructions_list = Ret(List(<< Dict(HowToStep @@ [text |-> PyInt(350)]) >>))]
BytesDoc == [GoodDoc EXCEPT !.fields = [AllFields(Raise) EXCEPT !["image"] = Ret(Bytes(<< "x" >>))]]
HttpDocs == { GoodDoc, ListDoc, IllTypedDoc, BytesDoc } \cup FailDocs

(***************************************************************************)
(* Requests                                                                *)
(***************************************************************************)
Url == Str(<< "h", "t", "t", "p", ":", "/", "/", "x", ".", "t", "e", "s", "t", "/", "r" >>)
Html == Str(<< "<", "h", "t", "m", "l", ">" >>)

\* The JSON objects a body may hold: url and html each absent, "" or given,
\* with or without a further key.
JsonObjects ==
  { Dict(u @@ h @@ x) :
      u \in { <<>>, [url |-> Str(<<>>)], [url |-> Url] },
      h \in { <<>>, [html |-> Str(<<>>)], [html |-> Html] },
      x \in { <<>>, [note |-> PyInt(1)] } }

\* A POST body: bytes that are not UTF-8, UTF-8 text that is not JSON, or
\* the JSON value it encodes.
Bodies ==
  { [kind |-> "not_utf8", data |-> None], [kind |-> "bad_json", data |-> None] }
  \cup { [kind |-> "json", data |-> d] :
           d \in { None, List(<<>>), List(<< PyInt(1) >>) } \cup JsonObjects }

NoBody == [kind |-> "none", data |-> None]

Methods(c) == IF c = "A" THEN { "POST", "OPTIONS", "GET" } ELSE { "POST", "GET" }

Requests(c) ==
  { [method |-> "POST", body |-> b] : b \in Bodies }
  \cup { [method |-> m, body |-> NoBody] : m \in Methods(c) \ { "POST" } }

\* scrape_recipe called by itself, not through a transport.
DirectCall == [method |-> "CALL", body |-> NoBody]

(***************************************************************************)
(* Exceptions, by class name                                               *)
(***************************************************************************)
NoExc == "none"
IsJSONDecodeError(cls) == cls = "JSONDecodeError"
IsValueError(cls) == cls \in { "ValueError", "UnicodeDecodeError", "JSONDecodeError" }

(***************************************************************************)
(* Responses                                                               *)
(***************************************************************************)
CorsHeaders ==
  { << "Access-Control-Allow-Origin", "*" >>,
    << "Access-Control-Allow-Methods", "POST, OPTIONS" >>,
    << "Access-Control-Allow-Headers", "Content-Type" >> }
JsonHeader == { << "Content-Type", "application/json" >> }

Response(status, headers, body) == [status |-> status, headers |-> headers, body |-> body]
ErrorBody(message, error_type) == [error |-> message, errorType |-> error_type]
JsonBody(data) == [json |-> data]
\* Status line and headers written, no body after them.
Nothing == [empty |-> TRUE]

\* json.dumps(x) succeeds.
RECURSIVE Serializable(_)
Serializable(x) ==
  CASE x.t = "bytes" -> FALSE
    [] x.t = "list" -> \A k \in 1..Len(x.v) : Serializable(x.v[k])
    [] x.t = "dict" -> \A k \in DOMAIN x.v : Serializable(x.v[k])
    [] OTHER -> TRUE

\* handler._send_error, lines 75-84.
SendErrorNoCors(status, message, error_type) ==
  Response(status, JsonHeader, ErrorBody(message, error_type))
SendError(status, message, error_type) ==
  Response(status, JsonHeader \cup CorsHeaders, ErrorBody(message, error_type))

\* handler._send_json, lines 67-73: the headers are flushed by end_headers()
\* before json.dumps runs.
SendJson(status, data) ==
  Response(status, JsonHeader \cup CorsHeaders,
           IF Serializable(data) THEN JsonBody(data) ELSE Nothing)

\* BaseHTTPRequestHandler.send_error, which answers the methods the class
\* handler has no do_<METHOD> for.
BaseSendError(status) ==
  Response(status, { << "Content-Type", "text/html;charset=utf-8" >>, << "Connection", "close" >> },
           [html |-> "Unsupported method"])

\* flask.jsonify(...), status
Jsonify(body, status) == Response(status, JsonHeader, body)

(***************************************************************************)
(* State                                                                   *)
(***************************************************************************)
VARIABLES
  caller,                    \* "A", "B" or "direct"
  request,                   \* the HTTP request
  doc,                       \* what scrape_html does on the html given
  pc,                        \* the statement about to run
  exc,                       \* class of the exception in flight or last raised
  title, ingredients,        \* locals of scrape_recipe
  raw_instructions, instructions, instructions_list_result, cleaned,
  i,                         \* index of the next step of the for loop
  result,                    \* what scrape_recipe returned
  ret,                       \* "none", "returned", "raised": how scrape_recipe ended
  calls,                     \* library calls made, in order
  wire                       \* what was written to the client, in order

vars == << caller, request, doc, pc, exc, title, ingredients, raw_instructions,
           instructions, instructions_list_result, cleaned, i, result, ret, calls, wire >>

locals == << title, ingredients, raw_instructions, instructions,
             instructions_list_result, cleaned, i, result >>

Init ==
  /\ caller \in { "A", "B", "direct" }
  /\ IF caller = "direct"
       THEN request = DirectCall /\ doc \in Docs /\ pc = "scrape_html"
       ELSE request \in Requests(caller) /\ doc \in HttpDocs /\ pc = "dispatch"
  /\ exc = NoExc
  /\ title = None
  /\ ingredients = None
  /\ raw_instructions = None
  /\ instructions = <<>>
  /\ instructions_list_result = None
  /\ cleaned = <<>>
  /\ i = 0
  /\ result = None
  /\ ret = "none"
  /\ calls = <<>>
  /\ wire = <<>>

\* Where control goes when scrape_recipe returns, and when it raises.
ReturnTo == CASE caller = "A" -> "send_json" [] caller = "B" -> "jsonify" [] OTHER -> "done"
RaiseTo == CASE caller = "A" -> "except_A" [] caller = "B" -> "except_B" [] OTHER -> "done"

(***************************************************************************)
(* scrape_recipe, statement by statement                                   *)
(***************************************************************************)
\* Line 42.
ScrapeHtml ==
  /\ pc = "scrape_html"
  /\ calls' = Append(calls, "scrape_html")
  /\ IF doc.construct = "ok"
       THEN pc' = "title" /\ UNCHANGED << exc, ret >>
       ELSE pc' = RaiseTo /\ exc' = doc.construct /\ ret' = "raised"
  /\ UNCHANGED << caller, request, doc, locals, wire >>

\* Lines 45-48.
GetTitle ==
  /\ pc = "title"
  /\ calls' = Append(calls, "title")
  /\ title' = TitleOr(doc.title)
  /\ pc' = "ingredients"
  /\ UNCHANGED << caller, request, doc, exc, ingredients, raw_instructions, instructions,
                  instructions_list_result, cleaned, i, result, ret, wire >>

\* Lines 51-54.
GetIngredients ==
  /\ pc = "ingredients"
  /\ calls' = Append(calls, "ingredients")
  /\ ingredients' = IngredientsOr(doc.ingredients)
  /\ pc' = "instructions"
  /\ UNCHANGED << caller, request, doc, exc, title, raw_instructions, instructions,
                  instructions_list_result, cleaned, i, result, ret, wire >>

\* Lines 77-82.
GetInstructions ==
  /\ pc = "instructions"
  /\ calls' = Append(calls, "instructions")
  /\ raw_instructions' = safe_call(doc.instructions)
  /\ instructions' = StringPath(raw_instructions')
  /\ pc' = "instructions_list"
  /\ UNCHANGED << caller, request, doc, exc, title, ingredients,
                  instructions_list_result, cleaned, i, result, ret, wire >>

\* Lines 85-88.
GetInstructionsList ==
  /\ pc = "instructions_list"
  /\ IF NeedsFallback(instructions)
       THEN /\ calls' = Append(calls, "instructions_list")
            /\ instructions_list_result' = safe_call(doc.instructions_list)
            /\ IF Truthy(instructions_list_result')
                 THEN pc' = "for_step" /\ i' = 1
                 ELSE pc' = "return" /\ i' = i
       ELSE /\ pc' = "return"
            /\ UNCHANGED << calls, instructions_list_result, i >>
  /\ cleaned' = <<>>
  /\ UNCHANGED << caller, request, doc, exc, title, ingredients, raw_instructions,
                  instructions, result, ret, wire >>

\* Lines 90-96: what one step adds to cleaned.
CleanedStep(step) ==
  IF step.t = "dict"
    THEN IF is_valid_instruction(StepText(step)) THEN << Str(Strip(StepText(step).v)) >> ELSE <<>>
    ELSE IF step.t = "str" /\ is_valid_instruction(step) THEN << Str(Strip(step.v)) >> ELSE <<>>

\* Lines 89-97: one turn of the loop; line 97 after the last one.
ForStep ==
  /\ pc = "for_step"
  /\ LET steps == IterItems(instructions_list_result)
         step == steps[i]
     IN  IF step.t = "dict" /\ is_valid_instruction_raises(StepText(step))
           THEN /\ exc' = "AttributeError"
                /\ ret' = "raised"
                /\ pc' = RaiseTo
                /\ UNCHANGED << cleaned, i, instructions >>
           ELSE /\ cleaned' = cleaned \o CleanedStep(step)
                /\ i' = i + 1
                /\ IF i = Len(steps)
                     THEN pc' = "return" /\ instructions' = cleaned'
                     ELSE pc' = "for_step" /\ instructions' = instructions
                /\ UNCHANGED << exc, ret >>
  /\ UNCHANGED << caller, request, doc, title, ingredients, raw_instructions,
                  instructions_list_result, result, calls, wire >>

\* Lines 99-134.
Return ==
  /\ pc = "return"
  /\ result' = RecordOf(doc, title, ingredients, instructions)
  /\ calls' = calls \o [k \in 1..Len(FieldAccessors) |-> FieldAccessors[k][2]]
  /\ ret' = "returned"
  /\ pc' = ReturnTo
  /\ UNCHANGED << caller, request, doc, exc, title, ingredients, raw_instructions,
                  instructions, instructions_list_result, cleaned, i, wire >>

scrape_recipe ==
  \/ ScrapeHtml
  \/ GetTitle
  \/ GetIngredients
  \/ GetInstructions
  \/ GetInstructionsList
  \/ ForStep
  \/ Return

(***************************************************************************)
(* Transport A: class handler of api/scrape.py.  The Content-Length header *)
(* is taken to be the length of the body, as HTTP clients send it.         *)
(***************************************************************************)
\* Line 36: the exception body.decode('utf-8') or json.loads raises, if any.
JsonLoadsError(body) ==
  CASE body.kind = "not_utf8" -> "UnicodeDecodeError"
    [] body.kind = "bad_json" -> "JSONDecodeError"
    [] OTHER -> NoExc

\* Line 41 of scrape.py, line 48 of scraper-dev.py: not url or not html.
MissingFields(data) == ~Truthy(DictGet(data, "url")) \/ ~Truthy(DictGet(data, "html"))

\* Lines 30-46.
DoPost ==
  /\ caller = "A"
  /\ pc = "dispatch"
  /\ request.method = "POST"
  /\ LET data == request.body.data
     IN  IF JsonLoadsError(request.body) # NoExc
           THEN exc' = JsonLoadsError(request.body) /\ pc' = "except_A" /\ wire' = wire
         ELSE IF data.t # "dict"
           THEN exc' = "AttributeError" /\ pc' = "except_A" /\ wire' = wire
         ELSE IF MissingFields(data)
           THEN /\ wire' = Append(wire, SendError(400, "Missing required fields: 'url' and 'html'", "Error"))
                /\ pc' = "done"
                /\ exc' = exc
         ELSE pc' = "scrape_html" /\ UNCHANGED << exc, wire >>
  /\ UNCHANGED << caller, request, doc, locals, ret, calls >>

\* Line 49.
DoPostSend ==
  /\ pc = "send_json"
  /\ wire' = Append(wire, SendJson(200, result))
  /\ IF Serializable(result)
       THEN pc' = "done" /\ exc' = exc
       ELSE pc' = "except_A" /\ exc' = "TypeError"
  /\ UNCHANGED << caller, request, doc, locals, ret, calls >>

\* Lines 51-59.
ExceptResponse(cls) ==
  IF IsJSONDecodeError(cls) THEN SendError(400, "Invalid JSON", "JSONDecodeError")
  ELSE IF IsValueError(cls) THEN SendError(400, "str(e)", "ScrapingError")
  ELSE SendError(500, "Internal server error", cls)

DoPostExcept ==
  /\ pc = "except_A"
  /\ wire' = Append(wire, ExceptResponse(exc))
  /\ pc' = "done"
  /\ UNCHANGED << caller, request, doc, exc, locals, ret, calls >>

\* Lines 61-65.
DoOptions ==
  /\ caller = "A"
  /\ pc = "dispatch"
  /\ request.method = "OPTIONS"
  /\ wire' = Append(wire, Response(200, CorsHeaders, Nothing))
  /\ pc' = "done"
  /\ UNCHANGED << caller, request, doc, exc, locals, ret, calls >>

\* Line 18: handler defines do_POST and do_OPTIONS only; the base class
\* answers every other method with send_error(501).
UnsupportedMethod ==
  /\ caller = "A"
  /\ pc = "dispatch"
  /\ request.method \notin { "POST", "OPTIONS" }
  /\ wire' = Append(wire, BaseSendError(501))
  /\ pc' = "done"
  /\ UNCHANGED << caller, request, doc, exc, locals, ret, calls >>

handler ==
  \/ DoPost
  \/ DoPostSend
  \/ DoPostExcept
  \/ DoOptions
  \/ UnsupportedMethod

(***************************************************************************)
(* Transport B: the Flask application of scripts/scraper-dev.py.  The      *)
(* request carries Content-Type: application/json.                         *)
(***************************************************************************)
\* Line 37: request.json raises werkzeug's BadRequest on a body it cannot
\* decode.
RequestJsonError(body) == IF body.kind \in { "not_utf8", "bad_json" } THEN "BadRequest" ELSE NoExc

\* Lines 36-54.
Scrape ==
  /\ caller = "B"
  /\ pc = "dispatch"
  /\ request.method = "POST"
  /\ LET data == request.body.data
     IN  IF RequestJsonError(request.body) # NoExc
           THEN exc' = RequestJsonError(request.body) /\ pc' = "except_B" /\ wire' = wire
         ELSE IF ~Truthy(data)
           THEN /\ wire' = Append(wire, Jsonify(ErrorBody("Missing request body", "ValidationError"), 400))
                /\ pc' = "done"
                /\ exc' = exc
         ELSE IF data.t # "dict"
           THEN exc' = "AttributeError" /\ pc' = "except_B" /\ wire' = wire
         ELSE IF MissingFields(data)
           THEN /\ wire' = Append(wire, Jsonify(ErrorBody("Missing required fields: 'url' and 'html'",
                                                          "ValidationError"), 400))
                /\ pc' = "done"
                /\ exc' = exc
         ELSE pc' = "scrape_html" /\ UNCHANGED << exc, wire >>
  /\ UNCHANGED << caller, request, doc, locals, ret, calls >>

\* Line 55.
ScrapeSend ==
  /\ pc = "jsonify"
  /\ IF Serializable(result)
       THEN wire' = Append(wire, Jsonify(JsonBody(result), 200)) /\ pc' = "done" /\ exc' = exc
       ELSE wire' = wire /\ pc' = "except_B" /\ exc' = "TypeError"
  /\ UNCHANGED << caller, request, doc, locals, ret, calls >>

\* Lines 57-62.
ScrapeExcept ==
  /\ pc = "except_B"
  /\ wire' = Append(wire, Jsonify(ErrorBody("str(e)", exc), 400))
  /\ pc' = "done"
  /\ UNCHANGED << caller, request, doc, exc, locals, ret, calls >>

\* Lines 65-68.
Health ==
  /\ caller = "B"
  /\ pc = "dispatch"
  /\ request.method = "GET"
  /\ wire' = Append(wire, Jsonify([status |-> "ok"], 200))
  /\ pc' = "done"
  /\ UNCHANGED << caller, request, doc, exc, locals, ret, calls >>

app ==
  \/ Scrape
  \/ ScrapeSend
  \/ ScrapeExcept
  \/ Health

Next == scrape_recipe \/ handler \/ app

Spec == Init /\ [][Next]_vars

(***************************************************************************)
(* Properties                                                              *)
(***************************************************************************)
Range(f) == { f[k] : k \in DOMAIN f }
IndexOf(seq, x) == CHOOSE k \in 1..Len(seq) : seq[k] = x

\* The keys of the RecipeRecord.
RecordKeys ==
  { "title", "author", "description", "image", "ingredients", "instructions", "yields",
    "totalTime", "canonicalUrl", "prepTime", "cookTime", "cuisine", "category", "ratings",
    "ratingsCount", "equipment", "nutrients", "dietaryRestrictions", "keywords",
    "cookingMethod", "siteName", "host", "language" }

\* The accessor raised, or returned "" or [].
RaisedOrEmpty(out) == ~out.ok \/ out.v = Str(<<>>) \/ out.v = List(<<>>)

\* The accessor behind a key of the record.
OutcomeOf(d, key) ==
  CASE key = "title" -> d.title
    [] key = "ingredients" -> d.ingredients
    [] key = "instructions" -> d.instructions
    [] OTHER -> d.fields[AccessorOf(key)]

\* instructions() returned a string with a line that passes the filter.
StringHasValidLine(out) ==
  /\ out.ok
  /\ out.v.t = "str"
  /\ \E k \in 1..Len(SplitLines(out.v.v)) : is_valid_instruction(Str(SplitLines(out.v.v)[k]))

ReturnedInstructions == result.v["instructions"].v

ErrorTypeOf(resp) == IF "errorType" \in DOMAIN resp.body THEN resp.body.errorType ELSE "none"

PostDone == caller \in { "A", "B" } /\ request.method = "POST" /\ pc = "done"

\* C1: every element of the instructions that scrape_recipe returns is a
\* string of at least ten characters that is not, lower-cased, one of the
\* reserved structural tokens.
C1_InstructionsAreRealSteps ==
  ret = "returned" =>
    \A k \in 1..Len(ReturnedInstructions) :
      LET e == ReturnedInstructions[k]
      IN  /\ e.t = "str"
          /\ Len(e.v) >= MinInstructionLength
          /\ Lower(e.v) \notin INVALID_INSTRUCTIONS

\* C2: when instructions() returned a string with a valid line,
\* instructions_list() is never called; it is called only after instructions()
\* was, and only when the string path gave no valid line.
C2_PrecedenceLaw ==
  /\ StringHasValidLine(doc.instructions) => "instructions_list" \notin Range(calls)
  /\ "instructions_list" \in Range(calls) =>
       /\ "instructions" \in Range(calls)
       /\ IndexOf(calls, "instructions") < IndexOf(calls, "instructions_list")
       /\ ~StringHasValidLine(doc.instructions)
       /\ StringPath(raw_instructions) = <<>>

\* The call returned with a valid line from the string path, and the document
\* had a usable instructions_list() that was left alone.
C2_Witness ==
  /\ ret = "returned"
  /\ StringHasValidLine(doc.instructions)
  /\ doc.instructions_list.ok
  /\ Truthy(doc.instructions_list.v)
  /\ "instructions_list" \notin Range(calls)
  /\ ReturnedInstructions # <<>>

\* C3 as stated: every field whose accessor raised or returned "" or [] is
\* null in the returned record.
C3_EveryEmptyFieldIsNull ==
  ret = "returned" =>
    \A key \in RecordKeys :
      RaisedOrEmpty(OutcomeOf(doc, key)) => result.v[key] = None

\* C3, amended: every field but title, ingredients and instructions whose
\* accessor raised or returned "" or [] is null in the returned record, and
\* no exception of an accessor leaves scrape_recipe: it raises only when
\* scrape_html did, or with the AttributeError of is_valid_instruction.
C3_SafeFieldsAreNull ==
  /\ ret = "returned" =>
       \A key \in RecordKeys \ { "title", "ingredients", "instructions" } :
         RaisedOrEmpty(OutcomeOf(doc, key)) => result.v[key] = None
  /\ ret = "raised" => (doc.construct # "ok" \/ exc = "AttributeError")

\* A record was returned for a document on which nineteen accessors raised
\* and one returned [], and all twenty fields are null.
C3_Witness ==
  /\ ret = "returned"
  /\ \E a \in Accessors : ~doc.fields[a].ok
  /\ \E key \in SafeKeys : doc.fields[AccessorOf(key)] = Ret(List(<<>>))
  /\ \A key \in SafeKeys : result.v[key] = None

\* C4: a POST whose JSON body lacks url or html, or has one of them empty,
\* gets exactly one answer, 400 with errorType ValidationError, and
\* scrape_recipe is not called.
C4_MissingFieldsAreValidationErrors ==
  (PostDone /\ request.body.kind = "json"
     /\ (request.body.data.t # "dict" \/ MissingFields(request.body.data))) =>
    /\ Len(wire) = 1
    /\ wire[1].status = 400
    /\ ErrorTypeOf(wire[1]) = "ValidationError"
    /\ "scrape_html" \notin Range(calls)

\* C5: a POST whose body is not well-formed JSON gets exactly one answer, 400
\* with an errorType that names a decode failure and not a scraping failure,
\* and scrape_recipe is not called.
C5_MalformedJsonIsDecodeError ==
  (PostDone /\ request.body.kind \in { "not_utf8", "bad_json" }) =>
    /\ Len(wire) = 1
    /\ wire[1].status = 400
    /\ ErrorTypeOf(wire[1]) \in { "JSONDecodeError", "BadRequest" }
    /\ ErrorTypeOf(wire[1]) \notin { "ScrapingError", "ExtractionError" }
    /\ "scrape_html" \notin Range(calls)

\* C6: a POST with url and html given, on a document scrape_html raises on,
\* gets exactly one answer, 400, whose errorType names a scraping failure
\* (ScrapingError, ExtractionError or the class the library raised).
C6_ConstructionFailureIs400 ==
  (PostDone /\ request.body.kind = "json" /\ request.body.data.t = "dict"
     /\ ~MissingFields(request.body.data) /\ doc.construct # "ok") =>
    /\ Len(wire) = 1
    /\ wire[1].status = 400
    /\ ErrorTypeOf(wire[1]) \in { "ScrapingError", "ExtractionError" } \cup ConstructErrors

\* Every accessor of the document raises or returns "" or [].
AllRaiseOrEmpty(d) ==
  /\ RaisedOrEmpty(d.title)
  /\ RaisedOrEmpty(d.ingredients)
  /\ RaisedOrEmpty(d.instructions)
  /\ RaisedOrEmpty(d.instructions_list)
  /\ \A a \in Accessors : RaisedOrEmpty(d.fields[a])

C8_CorsOnEveryResponse ==
  caller = "A" => \A k \in 1..Len(wire) : CorsHeaders \subseteq wire[k].headers

\* C8, amended: every response that do_POST and do_OPTIONS write, on every
\* success and error path, carries the three CORS headers.
C8_CorsOnHandlerResponses ==
  (caller = "A" /\ request.method \in { "POST", "OPTIONS" }) =>
    \A k \in 1..Len(wire) : CorsHeaders \subseteq wire[k].headers

\* Transport A answered a POST with an error.
C8_Witness ==
  /\ caller = "A"
  /\ request.method = "POST"
  /\ pc = "done"
  /\ Len(wire) = 1
  /\ wire[1].status = 500
  /\ CorsHeaders \subseteq wire[1].headers

\* What a step of instructions_list() contributes: a plain-text step itself,
\* a structured step its text or else its name, or nothing.
Contribution(step) ==
  IF step.t = "str" THEN step
  ELSE IF step.t = "dict" /\ "text" \in DOMAIN step.v /\ Truthy(step.v["text"]) THEN step.v["text"]
  ELSE IF step.t = "dict" /\ "name" \in DOMAIN step.v /\ Truthy(step.v["name"]) THEN step.v["name"]
  ELSE None

Passes(x) == x # None /\ is_valid_instruction(x)

ExpectedFromList(steps) ==
  LET kept == SelectSeq([k \in 1..Len(steps) |-> Contribution(steps[k])], Passes)
  IN  [k \in 1..Len(kept) |-> Str(Strip(kept[k].v))]

\* C9: when the string path gave no valid line, the returned instructions
\* are, in order, the trimmed contributions of the steps of instructions_list()
\* that pass the filter, and [] when instructions_list() raised or returned
\* an empty value.
C9_FallbackResult ==
  (ret = "returned" /\ ~StringHasValidLine(doc.instructions)) =>
    ReturnedInstructions =
      IF doc.instructions_list.ok /\ doc.instructions_list.v.t = "list"
        THEN ExpectedFromList(doc.instructions_list.v.v)
        ELSE <<>>

\* The fallback returned two steps, one from a name field and one trimmed
\* from a text field, in the order of the list.
C9_Witness ==
  /\ ret = "returned"
  /\ doc.instructions_list =
       Ret(List(<< Dict(HowToStep @@ [name |-> Str(BakeLine)]),
                   Dict(HowToStep @@ [text |-> Str(StirLine)]) >>))
  /\ ReturnedInstructions = << Str(BakeLine), Str(Strip(StirLine)) >>

\* C10: transport A writes exactly one response per POST, and nothing after
\* a 200 status.
C10_OneResponsePerPost ==
  (caller = "A" /\ request.method = "POST" /\ pc = "done") =>
    /\ Len(wire) = 1
    /\ \A k \in 1..Len(wire) : wire[k].status = 200 => k = Len(wire)

====
